---------------------------- MODULE Spec2Model ----------------------------
(***************************************************************************)
(* Render pipeline of the AI gallery backend (app/services):               *)
(*   ModelRegistry  - model key -> adapter, built from the credentials     *)
(*   RenderService  - create_render / create_matrix_renders on the event   *)
(*                    loop, enqueue_render onto a ThreadPoolExecutor, and   *)
(*                    process_render run by the executor's worker threads  *)
(* The renders table is the persisted job store; every worker opens its    *)
(* own SQLAlchemy session, so a worker holds the row as it loaded it.      *)
(***************************************************************************)
EXTENDS Integers, Sequences, FiniteSets, TLC

(* ------------------------------ bounds -------------------------------- *)
\* job records create_render may insert in one behaviour
MaxJobs == 2
\* direct enqueue_render calls (callers other than create_render)
MaxEnqueues == 1
\* job records and direct enqueue_render calls of the re-dispatch specification
MaxRetryJobs == 1
MaxRetryEnqueues == 2
\* job records of one behaviour of the worker-pool specification
MaxPoolJobs == 3
\* job records of one behaviour of the matrix specification
MaxMatrixJobs == 4
\* create_matrix_renders calls of one behaviour of the matrix specification
MaxMatrixCalls == 1
\* length of the style_phrases and model_keys lists given to create_matrix_renders
MaxList == 2
\* enqueue_render calls of the restart specification
MaxRestartEnqueues == 2
\* job records of one behaviour of the registry specification
MaxRegistryJobs == 2
\* job records of one behaviour of the image route specification
MaxServeJobs == 2
\* clock advances of one behaviour of the credit specification
MaxTicks == 2
\* StripeService calls of one behaviour of the credit specification
MaxCreditCalls == 4
\* job records of one behaviour of the gallery specification
MaxGalleryJobs == 2

(* ------------------------- program constants -------------------------- *)
\* ThreadPoolExecutor(max_workers=2)
max_workers_mut == 2 + 1
max_workers == 2

None == "None"

\* a render_id that names no row (no create_render call returned it)
UnknownId == 0
Ids == 0..(MaxJobs + MaxPoolJobs + MaxMatrixJobs)
Workers == 1..max_workers

(* ---------------------------- ModelRegistry --------------------------- *)
REPLICATE_KEYS == {"replicate:sdxl"}
OPENAI_KEYS == {"openai:dalle3", "openai:dalle2"}

\* ModelRegistry.__init__: one adapter per model key of each configured credential
RegistryInit_mut(replicate_api_token, openai_api_key) == REPLICATE_KEYS \cup OPENAI_KEYS
RegistryInit(replicate_api_token, openai_api_key) ==
    (IF replicate_api_token THEN REPLICATE_KEYS ELSE {})
        \cup (IF openai_api_key THEN OPENAI_KEYS ELSE {})

\* ModelRegistry.list_models
list_models(adp) == adp

\* ModelRegistry.get_adapter: TRUE when it returns, FALSE when it raises ValueError
get_adapter_ok_mut(adp, model_key) == TRUE
get_adapter_ok(adp, model_key) == model_key \in adp

\* the adapter class behind a registered key
AdapterClass(model_key) ==
    IF model_key \in REPLICATE_KEYS THEN "replicate" ELSE "openai"

\* ModelRegistry.build_prompt: f"{base_prompt} {style_phrase}", a string concatenation
build_prompt_mut(base_prompt, style_phrase) == base_prompt \o style_phrase
build_prompt(base_prompt, style_phrase) == base_prompt \o " " \o style_phrase

(* ------------------------------ renders ------------------------------- *)
\* f"{month:02d}": the two decimal digits of the month
Fmt02(m) == <<m \div 10, m % 10>>

\* the empty string stored by create_render for image_path / thumb_path
EmptyPath == <<>>

\* save_image_files: render.image_path = f"images/{year}/{month:02d}/{render.id}.webp"
ImagePath(id, now) == <<"images", now.year, Fmt02(now.month), id, ".webp">>

\* save_image_files: render.thumb_path = f"images/{year}/{month:02d}/{render.id}-thumb.webp"
ThumbPath(id, now) == <<"images", now.year, Fmt02(now.month), id, "-thumb.webp">>

\* save_image_files: the files written, f"data/images/{year}/{month:02d}/..."
ImageFile(id, now) == <<"data">> \o ImagePath(id, now)
ThumbFile(id, now) == <<"data">> \o ThumbPath(id, now)

\* f"{month}" of an int: its decimal digits, no padding
Digits(n) ==
    LET D[k \in 0..n] == IF k < 10 THEN <<k>> ELSE D[k \div 10] \o <<k % 10>>
    IN  D[n]

\* a path parameter declared int: the number its decimal digits denote
ParseInt(ds) ==
    LET P[k \in 0..Len(ds)] == IF k = 0 THEN 0 ELSE P[k - 1] * 10 + ds[k]
    IN  P[Len(ds)]

\* serve_image: file_path = f"data/images/{year}/{month}/{filename}"
serve_image(year, month, filename) == <<"data", "images", year, Digits(month)>> \o filename

\* save_image_files, line 155: thumb_image.thumbnail((200, 200), LANCZOS). Pillow's
\* Image.thumbnail leaves an image that already fits unchanged; otherwise it keeps the
\* edge that reaches the box and rounds the other edge to the neighbouring whole
\* number that keeps the ratio closest (at least 1), and resizes to that size
THUMB_SIZE == <<200, 200>>
Abs(n) == IF n < 0 THEN 0 - n ELSE n
Ceil(a, b) == IF a % b = 0 THEN a \div b ELSE (a \div b) + 1
AtLeast1(n) == IF n < 1 THEN 1 ELSE n
thumbnail_mut(size, width, height) == size
thumbnail(size, width, height) ==
    LET x == size[1]
        y == size[2]
    IN  IF x >= width /\ y >= height THEN <<width, height>>
        ELSE IF x * height >= y * width
        THEN \* x = round_aspect(y * aspect, key = |aspect - n / y|)
             LET f == (y * width) \div height
                 c == Ceil(y * width, height)
                 n == IF Abs(y * width - c * height) < Abs(y * width - f * height)
                      THEN c ELSE f
             IN  <<AtLeast1(n), y>>
        ELSE \* y = round_aspect(x / aspect, key = 0 if n == 0 else |aspect - x / n|)
             LET f == (x * height) \div width
                 c == Ceil(x * height, width)
                 n == IF f = 0 THEN f
                      ELSE IF Abs(width * c - x * height) * f < Abs(width * f - x * height) * c
                      THEN c ELSE f
             IN  <<x, AtLeast1(n)>>

\* dict merge {**a, **b}: b's keys win, a's other keys are kept
Merge(a, b) == b @@ a

\* create_render: Render(..., status="pending", image_path="", thumb_path="", render_metadata={...})
NewRender_mut(user_id, style_phrase, model_key, base_prompt, input_image_path, cost_credits) ==
    [user_id |-> user_id, style_phrase |-> style_phrase, model_key |-> model_key,
     base_prompt |-> base_prompt, input_image_path |-> input_image_path,
     status |-> "done", cost_credits |-> cost_credits,
     image_path |-> EmptyPath, thumb_path |-> EmptyPath,
     render_metadata |-> [created_at |-> "ts", model_available |-> TRUE]]
NewRender(user_id, style_phrase, model_key, base_prompt, input_image_path, cost_credits) ==
    [user_id |-> user_id, style_phrase |-> style_phrase, model_key |-> model_key,
     base_prompt |-> base_prompt, input_image_path |-> input_image_path,
     status |-> "pending", cost_credits |-> cost_credits,
     image_path |-> EmptyPath, thumb_path |-> EmptyPath,
     render_metadata |-> [created_at |-> "ts", model_available |-> TRUE]]

\* db.add(render); db.commit(): the row becomes visible to every session
InsertRender_mut(db, id, row) == db
InsertRender_all(db, id, row) == [i \in DOMAIN db \cup {id} |-> row]
InsertRender(db, id, row) == (id :> row) @@ db

\* db.commit() of a loaded object: the UPDATE sets the attributes whose value differs
\* from the loaded one; render_metadata always differs (it carries a new timestamp)
CommitRow(row, orig, mem) ==
    [f \in DOMAIN row |->
        IF f = "render_metadata" \/ mem[f] # orig[f] THEN mem[f] ELSE row[f]]

\* save_image_files, lines 158-160: the paths assigned to the in-memory render
SavePaths_mut(r, id, now) == [r EXCEPT !.image_path = ImagePath(id, now)]
SavePaths(r, id, now) ==
    [r EXCEPT !.image_path = ImagePath(id, now), !.thumb_path = ThumbPath(id, now)]

\* process_render, lines 94-101: status and merged metadata of the done path
MarkDone_mut(r, generation, effective_prompt) ==
    [r EXCEPT !.status = "done",
              !.base_prompt = effective_prompt,
              !.render_metadata = Merge(@, [generation |-> generation,
                                             effective_prompt |-> effective_prompt,
                                             completed_at |-> "ts"])]
MarkDone(r, generation, effective_prompt) ==
    [r EXCEPT !.status = "done",
              !.render_metadata = Merge(@, [generation |-> generation,
                                             effective_prompt |-> effective_prompt,
                                             completed_at |-> "ts"])]

\* process_render, lines 111-117: status and merged metadata of the failed path
MarkFailed_mut(r, e) == r
MarkFailed(r, e) ==
    [r EXCEPT !.status = "failed",
              !.render_metadata = Merge(@, [error |-> e, failed_at |-> "ts"])]

\* process_render, line 106: `except Exception` catches every error raised in the try block
Caught_mut(e) == e # "timeout"
Caught(e) == TRUE

\* get_render_status: None (NotFound) for an unknown id, else a snapshot of the row
NotFound == [found |-> FALSE]
get_render_status(db, render_id) ==
    IF render_id \notin DOMAIN db THEN NotFound
    ELSE [found |-> TRUE, id |-> render_id, status |-> db[render_id].status,
          image_path |-> db[render_id].image_path,
          thumb_path |-> db[render_id].thumb_path]

\* process_render, line 35: db.query(Render).filter(Render.id == render_id).first(),
\* the row or Python None
NoRow == [row |-> FALSE]
query_first_mut(db, render_id) ==
    IF render_id \in DOMAIN db THEN db[render_id]
    ELSE [user_id |-> None, style_phrase |-> "", model_key |-> "replicate:sdxl",
          base_prompt |-> "", input_image_path |-> None, status |-> "pending",
          cost_credits |-> 0, image_path |-> EmptyPath, thumb_path |-> EmptyPath,
          render_metadata |-> [created_at |-> "ts"]]
query_first(db, render_id) == IF render_id \in DOMAIN db THEN db[render_id] ELSE NoRow

\* create_render, line 175: model_key in self.model_registry.list_models()
ModelAvailable_mut(adp, model_key) == TRUE
ModelAvailable(adp, model_key) == model_key \in list_models(adp)

(* ----------------------------- query surface -------------------------- *)
\* Render.style_phrase.contains(q): style_phrase LIKE '%' || q || '%' with no escape,
\* so an underscore in q stands for any one character
LikeAt(s, q, i) ==
    \A j \in 1..Len(q) :
        SubSeq(q, j, j) = "_" \/ SubSeq(q, j, j) = SubSeq(s, i + j - 1, i + j - 1)
Contains(s, q) == \E i \in 1..(Len(s) - Len(q) + 1) : LikeAt(s, q, i)

\* db.query(Render).filter(Render.status == "done"), and `if q:` the contains filter:
\* the ids the query selects
DoneQuery_mut(db, q) ==
    {id \in DOMAIN db : q \notin {None, ""} => Contains(db[id].style_phrase, q)}
DoneQuery(db, q) ==
    {id \in DOMAIN db :
        /\ db[id].status = "done"
        /\ q \notin {None, ""} => Contains(db[id].style_phrase, q)}

\* the selected ids in insertion order (no ORDER BY) and newest first (created_at desc)
AscIds(S) ==
    [k \in 1..Cardinality(S) |-> CHOOSE x \in S : Cardinality({y \in S : y < x}) = k - 1]
DescIds(S) ==
    [k \in 1..Cardinality(S) |-> CHOOSE x \in S : Cardinality({y \in S : y > x}) = k - 1]

\* .offset(offset).limit(limit)
OffsetLimit(seq, offset, limit) ==
    LET from == IF offset < 0 THEN 1 ELSE offset + 1
        upto == IF limit < 0 \/ from - 1 + limit > Len(seq) THEN Len(seq)
                ELSE from - 1 + limit
    IN  IF from > upto THEN <<>> ELSE SubSeq(seq, from, upto)

\* the Render object a query loads, as the handlers read it
Loaded(db, id) ==
    [id |-> id, status |-> db[id].status, style_phrase |-> db[id].style_phrase,
     model_key |-> db[id].model_key, image_path |-> db[id].image_path,
     thumb_path |-> db[id].thumb_path]

\* query.offset(offset).limit(limit).all()
SearchRows(db, q, offset, limit) ==
    LET ids == OffsetLimit(AscIds(DoneQuery(db, q)), offset, limit)
    IN  [k \in 1..Len(ids) |-> Loaded(db, ids[k])]

\* query.count()
SearchTotal(db, q) == Cardinality(DoneQuery(db, q))

\* db.query(Render.style_phrase).filter(Render.status == "done").distinct().all()
Styles(db) == {db[id].style_phrase : id \in DoneQuery(db, None)}

\* the /default listing: done jobs up to limit, unordered in main.py and newest
\* first in app_simple.py and api/index.py
DefaultRows(db, limit, order) ==
    LET sel == DoneQuery(db, None)
        ids == OffsetLimit(IF order = "newest first" THEN DescIds(sel) ELSE AscIds(sel),
                           0, limit)
    IN  [k \in 1..Len(ids) |-> Loaded(db, ids[k])]

(* -------------------- inputs and environment outcomes ----------------- *)

Request(user_id, style_phrase, model_key, base_prompt, input_image_path, cost_credits) ==
    [user_id |-> user_id, style_phrase |-> style_phrase, model_key |-> model_key,
     base_prompt |-> base_prompt, input_image_path |-> input_image_path,
     cost_credits |-> cost_credits]

\* create_render arguments: text2img and img2img, both providers, an unregistered key
Requests ==
    {Request(None, "oil painting", "replicate:sdxl", "a cat", None, 0),
     Request("user 7", "watercolor", "replicate:sdxl", "a dog", "uploads/in.png", 1),
     Request("user 7", "oil painting", "openai:dalle3", "a cat", None, 1),
     Request(None, "watercolor", "acme:v1", "a cat", None, 1)}

\* create_render arguments of the worker-pool specification
PoolRequests ==
    {Request(None, "oil painting", "replicate:sdxl", "a cat", None, 0),
     Request(None, "oil painting", "acme:v1", "a cat", None, 0)}
\* create_render arguments of the gallery specification: two style phrases
GalleryRequests ==
    {Request(None, "oil painting", "replicate:sdxl", "a cat", None, 0),
     Request(None, "watercolor", "replicate:sdxl", "a cat", None, 0)}

\* /search parameters: no q, a substring, a LIKE pattern; the handler of main.py
\* reads the rows and then the count, app_simple.py and api/index.py the count first
SearchQs == {None, "oil", "w_t"}
SearchOffsets == {0, 1}
SearchLimits == {1, 10}
SearchVariants == {"rows first", "count first"}
DefaultOrders == {"unordered", "newest first"}

\* rows a previous run of the server left in the table: jobs accepted under the
\* credentials of that time and still pending
RestartRows ==
    {NewRender(None, "oil painting", model_key, "a cat", None, 0) :
        model_key \in {"replicate:sdxl", "openai:dalle3"}}

\* settings.replicate_api_token / settings.openai_api_key: "" when the environment
\* variable is not set
Tokens == {"", "secret"}

\* model keys asked of get_adapter
LookupKeys == {"replicate:sdxl", "openai:dalle3", "openai:dalle2", "acme:v1", ""}

\* lists of at most n elements of S
Lists(S, n) == UNION {[1..k -> S] : k \in 0..n}

\* create_matrix_renders arguments
StyleList == <<"oil painting", "watercolor", "ink wash", "pastel">>
MatrixStyles == {SubSeq(StyleList, 1, k) : k \in 0..MaxList}
MatrixKeys == Lists({"replicate:sdxl", "openai:dalle3", "acme:v1"}, MaxList)
MatrixUsers == {None, "user 7"}

\* build_prompt arguments: empty, plain, with inner, leading and trailing spaces, with
\* characters an escaping step would change, and one longer than any field width
PromptStrings ==
    {"", "a", "a cat", "oil painting", " a ", "a  b", "a\\b \"c\" %s {x}",
     "a photograph of a very large orange cat asleep on a windowsill in the rain"}

\* widths and heights of the generated image: tiny, inside the 200 box, on its
\* edge, just over it, and large
Dimensions == {1, 2, 3, 150, 199, 200, 201, 300, 333, 500, 1999, 2000, 4000}

\* datetime.utcnow() as read by save_image_files: a one-digit and a two-digit month
Dates == {[year |-> 2025, month |-> 9], [year |-> 2025, month |-> 10]}

\* Python truthiness of an optional string (`if render.input_image_path:`)
Truthy_mut(s) == s # ""
Truthy(s) == s \notin {None, ""}

\* the provider metadata of an ImageResult; ReplicateAdapter.img2img puts the raw
\* bytes of the input image into input_params, which json.dumps cannot encode
ResultMetadata_mut(cls, kind) == [provider |-> cls, kind |-> kind, json_ok |-> FALSE]
ResultMetadata(cls, kind) ==
    [provider |-> cls, kind |-> kind,
     json_ok |-> ~(cls = "replicate" /\ kind = "img2img")]

ImageResult(url, cls, kind) == [image_url |-> url, metadata |-> ResultMetadata(cls, kind)]

\* what an adapter call can do: re-raise an upstream error, or return one ImageResult
\* per element of the upstream output (none, one or several)
AdapterOutcomes(cls, kind) ==
    {[raised |-> TRUE, error |-> "timeout", results |-> <<>>]}
    \cup {[raised |-> FALSE, error |-> "", results |-> rs] :
            rs \in {<<>>, <<ImageResult("url1", cls, kind)>>,
                    <<ImageResult("url1", cls, kind), ImageResult("url2", cls, kind)>>}}

\* download_image: None on any requests error, else response.content,
\* which may be empty, undecodable or an image
DownloadOutcomes == {"None", "empty", "garbage", "image"}

\* server processes, each with its own StripeService (main.py: stripe_service =
\* StripeService(settings) at import), all on one Stripe account
Procs == {1, 2}

\* user ids passed to the credit calls, and the ones whose User row has a
\* stripe_customer_id
UserIds == {1, 2}
Customers == {1}

\* amounts passed to deduct_credits and add_credits, and balances found at the start
Amounts == {3, 5}
InitialCredits == {0, 5}

\* StripeService.cache_ttl, and the step by which time.time() is seen to advance: an
\* entry is met before, at and after its expiry
cache_ttl == 300
TickSeconds == cache_ttl \div 2

\* a Stripe request returns or raises stripe.error.StripeError
StripeOutcomes == {"ok", "StripeError"}

\* get_user_credits, lines 51-54: an entry that has not expired
CacheHit(cache, user_id, now) == user_id \in DOMAIN cache /\ now < cache[user_id][2]

\* get_user_credits, line 66: self.credit_cache[user_id] = (credits, time.time() + cache_ttl)
CachePut(cache, user_id, credits, now) ==
    [u \in DOMAIN cache \cup {user_id} |->
        IF u = user_id THEN <<credits, now + cache_ttl>> ELSE cache[u]]

\* deduct_credits / add_credits, "Clear cache": del self.credit_cache[user_id] if present
Invalidate_mut(cache, user_id) == cache
Invalidate(cache, user_id) == [u \in DOMAIN cache \ {user_id} |-> cache[u]]

(* ------------------------------- state -------------------------------- *)
VARIABLES
    adapters,   \* ModelRegistry.adapters: the registered model keys
    renders,    \* the renders table: id -> committed row
    queue,      \* the executor's work queue of submitted process_render(render_id)
    workers,    \* the executor's worker threads: position in process_render, loaded row
    files,      \* files written under data/images
    submits,    \* executor.submit calls so far, per render id
    escaped,    \* TRUE once an exception has left process_render
    mcalls,     \* create_matrix_renders calls entered so far
    main,       \* the event loop: the call being served, or its pending result
    stripe,        \* the Stripe customer's metadata['credits'], a decimal string
    credit_cache,  \* StripeService.credit_cache of each process: user_id -> (credits, expires_at)
    calls,         \* the StripeService call each process is in, or the last one it returned from
    clock,         \* time.time()
    ledger         \* the balance at the start and the amounts of the calls that returned True

rvars == <<adapters, renders, queue, workers, files, submits, escaped, mcalls, main>>
svars == <<stripe, credit_cache, calls, clock, ledger>>
vars == <<adapters, renders, queue, workers, files, submits, escaped, mcalls, main,
          stripe, credit_cache, calls, clock, ledger>>

\* StripeService.__init__ in every process, beside a customer whose metadata holds
\* the balance: empty caches, no call made yet
StripeServiceInit(balance) ==
    /\ stripe = Digits(balance)
    /\ credit_cache = [p \in Procs |-> <<>>]
    /\ calls = [p \in Procs |-> [pc |-> "idle", n |-> 0, op |-> "none"]]
    /\ clock = 0
    /\ ledger = [initial |-> balance, added |-> 0, deducted |-> 0, calls |-> 0]

Idle == [pc |-> "idle"]
MainIdle == [pc |-> "idle"]

Init ==
    /\ \E replicate_api_token \in BOOLEAN, openai_api_key \in BOOLEAN :
          adapters = RegistryInit(replicate_api_token, openai_api_key)
    /\ renders = <<>>
    /\ queue = <<>>
    /\ workers = [w \in Workers |-> Idle]
    /\ files = {}
    /\ submits = [i \in Ids |-> 0]
    /\ escaped = FALSE
    /\ mcalls = 0
    /\ StripeServiceInit(0)
    /\ main = MainIdle

\* the server starts on a table that already holds a job, with whatever credentials
\* are configured now
InitRestart ==
    /\ \E replicate_api_token \in BOOLEAN, openai_api_key \in BOOLEAN :
          adapters = RegistryInit(replicate_api_token, openai_api_key)
    /\ \E row \in RestartRows : renders = <<row>>
    /\ queue = <<>>
    /\ workers = [w \in Workers |-> Idle]
    /\ files = {}
    /\ submits = [i \in Ids |-> 0]
    /\ escaped = FALSE
    /\ mcalls = 0
    /\ StripeServiceInit(0)
    /\ main = MainIdle

\* RenderService.__init__ has built the registry from the settings
InitRegistry ==
    /\ \E replicate_api_token \in Tokens, openai_api_key \in Tokens :
          /\ adapters = RegistryInit(replicate_api_token # "", openai_api_key # "")
          /\ main = [pc |-> "returned", op |-> "ModelRegistry",
                      replicate_api_token |-> replicate_api_token,
                      openai_api_key |-> openai_api_key]
    /\ renders = <<>>
    /\ queue = <<>>
    /\ workers = [w \in Workers |-> Idle]
    /\ files = {}
    /\ submits = [i \in Ids |-> 0]
    /\ escaped = FALSE
    /\ mcalls = 0
    /\ StripeServiceInit(0)

\* str(uuid.uuid4()): an id no row has
FreshId == Cardinality(DOMAIN renders) + 1

\* executor.submit calls so far, over all ids
Submitted ==
    LET Sum[i \in Ids] == submits[i] + (IF i = 0 THEN 0 ELSE Sum[i - 1])
    IN  Sum[MaxJobs + MaxPoolJobs + MaxMatrixJobs]

(* --------------------------- process_render --------------------------- *)
\* an exception raised inside the try block reaches line 106; `rolled_back` tells
\* that it came out of db.commit(), which rolls the session back and expires its objects
Raise(w, id, orig, e, rolled_back) ==
    /\ workers' = [workers EXCEPT ![w] =
            [pc |-> "except", id |-> id, orig |-> orig, error |-> e,
             rolled_back |-> rolled_back]]
    /\ UNCHANGED <<renders, escaped>>

\* lines 33-78: a worker takes the next submitted id, loads the row, resolves the
\* adapter, builds the prompt and enters the adapter call
Start(w) ==
    /\ workers[w].pc = "idle"
    /\ queue # <<>>
    /\ queue' = Tail(queue)
    /\ UNCHANGED <<svars, adapters, files, submits, mcalls, main>>
    /\ LET id == Head(queue)
           r == query_first(renders, id) IN
       IF r = NoRow
       THEN UNCHANGED <<renders, workers, escaped>>
       ELSE IF ~get_adapter_ok(adapters, r.model_key)
            THEN Raise(w, id, r, "Model not available", FALSE)
            ELSE /\ workers' = [workers EXCEPT ![w] =
                        [pc |-> "adapter", id |-> id, orig |-> r,
                         kind |-> IF Truthy(r.input_image_path) THEN "img2img" ELSE "text2img",
                         prompt |-> build_prompt(r.base_prompt, r.style_phrase)]]
                 /\ UNCHANGED <<renders, escaped>>

\* lines 64-84: the adapter call returns or raises; an empty list raises
AdapterReturn(w) ==
    /\ workers[w].pc = "adapter"
    /\ UNCHANGED <<svars, adapters, queue, files, submits, mcalls, main>>
    /\ LET me == workers[w] IN
       \E out \in AdapterOutcomes(AdapterClass(me.orig.model_key), me.kind) :
          IF out.raised
          THEN Raise(w, me.id, me.orig, out.error, FALSE)
          ELSE IF out.results = <<>>
          THEN Raise(w, me.id, me.orig, "No images generated", FALSE)
          ELSE /\ workers' = [workers EXCEPT ![w] =
                      [me EXCEPT !.pc = "download"] @@ [result |-> out.results[1]]]
               /\ UNCHANGED <<renders, escaped>>

\* lines 86-104: download, save_image_files, the done commit; a commit that cannot
\* encode the metadata raises, rolls the session back and lands in the except block
DownloadReturn(w) ==
    /\ workers[w].pc = "download"
    /\ UNCHANGED <<svars, adapters, queue, submits, mcalls, main>>
    /\ LET me == workers[w] IN
       \E bytes \in DownloadOutcomes :
          IF bytes \in {"None", "empty"}
          THEN /\ Raise(w, me.id, me.orig, "Failed to download generated image", FALSE)
               /\ UNCHANGED files
          ELSE IF bytes = "garbage"
          THEN /\ Raise(w, me.id, me.orig, "cannot identify image file", FALSE)
               /\ UNCHANGED files
          ELSE \E now \in Dates :
               /\ files' = files \cup {ImageFile(me.id, now), ThumbFile(me.id, now)}
               /\ LET mem == MarkDone(SavePaths(me.orig, me.id, now),
                                      me.result.metadata, me.prompt) IN
                  IF me.result.metadata.json_ok
                  THEN /\ renders' = [renders EXCEPT ![me.id] = CommitRow(@, me.orig, mem)]
                       /\ workers' = [workers EXCEPT ![w] = Idle]
                       /\ UNCHANGED escaped
                  ELSE Raise(w, me.id, me.orig, "not JSON serializable", TRUE)

\* the except block, lines 106-118: the re-query returns the session's in-memory
\* object, or the committed row when the session was rolled back; the row is marked
\* failed and committed. An exception the except clause does not catch leaves
\* process_render and ends in the worker's future
Except(w) ==
    /\ workers[w].pc = "except"
    /\ UNCHANGED <<svars, adapters, queue, files, submits, mcalls, main>>
    /\ workers' = [workers EXCEPT ![w] = Idle]
    /\ LET me == workers[w]
           base == IF me.rolled_back THEN renders[me.id] ELSE me.orig IN
       IF Caught(me.error)
       THEN /\ renders' = [renders EXCEPT ![me.id] =
                                CommitRow(@, base, MarkFailed(base, me.error))]
            /\ UNCHANGED escaped
       ELSE /\ escaped' = TRUE
            /\ UNCHANGED renders

(* ------------------------ calls on the event loop --------------------- *)
\* create_render, lines 174-198: validation, then the committed insert
CreateRender(reqs, cap) ==
    /\ main.pc = "idle"
    /\ \E rq \in reqs :
          IF ~ModelAvailable(adapters, rq.model_key)
          THEN /\ main' = [pc |-> "returned", op |-> "create_render",
                           model_key |-> rq.model_key, result |-> "ValueError"]
               /\ UNCHANGED renders
          ELSE /\ FreshId <= cap
               /\ renders' = InsertRender(renders, FreshId,
                      NewRender(rq.user_id, rq.style_phrase, rq.model_key, rq.base_prompt,
                                rq.input_image_path, rq.cost_credits))
               /\ main' = [pc |-> "enqueue", op |-> "create_render",
                           model_key |-> rq.model_key, id |-> FreshId]
    /\ UNCHANGED <<svars, adapters, queue, workers, files, submits, escaped, mcalls>>

\* create_render, lines 200-203: enqueue_render(render.id), return render
CreateRenderEnqueue ==
    /\ main.pc = "enqueue"
    /\ main.op = "create_render"
    /\ queue' = Append(queue, main.id)
    /\ submits' = [submits EXCEPT ![main.id] = @ + 1]
    /\ main' = [pc |-> "returned", op |-> "create_render", model_key |-> main.model_key,
                result |-> "ok", id |-> main.id]
    /\ UNCHANGED <<svars, adapters, renders, workers, files, escaped, mcalls>>

\* enqueue_render called for any id by another caller of the service
EnqueueRender(cap) ==
    /\ main.pc = "idle"
    /\ Submitted - Cardinality(DOMAIN renders) < cap
    /\ \E render_id \in DOMAIN renders \cup {UnknownId} :
          /\ queue' = Append(queue, render_id)
          /\ submits' = [submits EXCEPT ![render_id] = @ + 1]
          /\ main' = [pc |-> "returned", op |-> "enqueue_render", id |-> render_id]
    /\ UNCHANGED <<svars, adapters, renders, workers, files, escaped, mcalls>>

\* get_render_status: a read of the table
GetRenderStatus ==
    /\ main.pc = "idle"
    /\ \E render_id \in DOMAIN renders \cup {UnknownId} :
          main' = [pc |-> "returned", op |-> "get_render_status", id |-> render_id,
                   result |-> get_render_status(renders, render_id)]
    /\ UNCHANGED <<svars, adapters, renders, queue, workers, files, submits, escaped, mcalls>>

\* create_matrix_renders is entered: renders = [], the loops start
MatrixCall ==
    /\ main.pc = "idle"
    /\ mcalls < MaxMatrixCalls
    /\ mcalls' = mcalls + 1
    /\ \E style_phrases \in MatrixStyles, model_keys \in MatrixKeys, user_id \in MatrixUsers :
          /\ Cardinality(DOMAIN renders) + Len(style_phrases) * Len(model_keys) <= MaxMatrixJobs
          /\ main' = [pc |-> "matrix", op |-> "create_matrix_renders",
                      style_phrases |-> style_phrases, model_keys |-> model_keys,
                      user_id |-> user_id, base_prompt |-> "a cat", done |-> 0, out |-> <<>>]
    /\ UNCHANGED <<svars, adapters, renders, queue, workers, files, submits, escaped>>

\* the style phrase and the model key of the k-th iteration: style_phrases is the
\* outer loop, model_keys the inner one
MatrixStyle(m, k) == m.style_phrases[((k - 1) \div Len(m.model_keys)) + 1]
MatrixKey_mut(m, k) == m.model_keys[1]
MatrixKey(m, k) == m.model_keys[((k - 1) % Len(m.model_keys)) + 1]

\* lines 232-245: the loops are over, or the next iteration calls create_render
\* (cost_credits=0), which validates and inserts, or raises out of the whole call
MatrixStep ==
    /\ main.pc = "matrix"
    /\ IF main.done = Len(main.style_phrases) * Len(main.model_keys)
       THEN /\ main' = [pc |-> "returned", op |-> "create_matrix_renders",
                        style_phrases |-> main.style_phrases, model_keys |-> main.model_keys,
                        user_id |-> main.user_id, result |-> "ok", out |-> main.out]
            /\ UNCHANGED renders
       ELSE LET style_phrase == MatrixStyle(main, main.done + 1)
                model_key == MatrixKey(main, main.done + 1) IN
            IF ~ModelAvailable(adapters, model_key)
            THEN /\ main' = [pc |-> "returned", op |-> "create_matrix_renders",
                             style_phrases |-> main.style_phrases,
                             model_keys |-> main.model_keys, user_id |-> main.user_id,
                             result |-> "ValueError", out |-> main.out]
                 /\ UNCHANGED renders
            ELSE /\ renders' = InsertRender(renders, FreshId,
                        NewRender(main.user_id, style_phrase, model_key, main.base_prompt,
                                  None, 0))
                 /\ main' = [main EXCEPT !.pc = "enqueue"] @@ [id |-> FreshId]
    /\ UNCHANGED <<svars, adapters, queue, workers, files, submits, escaped, mcalls>>

\* create_render inside the loop, lines 200-203, and renders.append(render)
MatrixEnqueue ==
    /\ main.pc = "enqueue"
    /\ main.op = "create_matrix_renders"
    /\ queue' = Append(queue, main.id)
    /\ submits' = [submits EXCEPT ![main.id] = @ + 1]
    /\ main' = [pc |-> "matrix", op |-> "create_matrix_renders",
                style_phrases |-> main.style_phrases, model_keys |-> main.model_keys,
                user_id |-> main.user_id, base_prompt |-> main.base_prompt,
                done |-> main.done + 1, out |-> Append(main.out, main.id)]
    /\ UNCHANGED <<svars, adapters, renders, workers, files, escaped, mcalls>>

\* GET /search: the first of the handler's two queries
SearchFirst ==
    /\ main.pc = "idle"
    /\ \E q \in SearchQs, offset \in SearchOffsets, limit \in SearchLimits,
          variant \in SearchVariants :
          main' = [pc |-> "search", op |-> "search", variant |-> variant, q |-> q,
                   offset |-> offset, limit |-> limit,
                   results |-> IF variant = "rows first"
                               THEN SearchRows(renders, q, offset, limit) ELSE <<>>,
                   total |-> IF variant = "count first"
                             THEN SearchTotal(renders, q) ELSE 0]
    /\ UNCHANGED <<svars, adapters, renders, queue, workers, files, submits, escaped, mcalls>>

\* GET /search: the second query, and the response
SearchSecond ==
    /\ main.pc = "search"
    /\ main' = [main EXCEPT
                   !.pc = "returned",
                   !.results = IF main.variant = "count first"
                               THEN SearchRows(renders, main.q, main.offset, main.limit)
                               ELSE @,
                   !.total = IF main.variant = "rows first"
                             THEN SearchTotal(renders, main.q) ELSE @]
    /\ UNCHANGED <<svars, adapters, renders, queue, workers, files, submits, escaped, mcalls>>

\* GET /render/{render_id}: the row with its status and metadata, or 404
GetRender ==
    /\ main.pc = "idle"
    /\ \E render_id \in DOMAIN renders \cup {UnknownId} :
          main' = [pc |-> "returned", op |-> "get_render", id |-> render_id,
                   result |-> IF render_id \in DOMAIN renders
                              THEN [code |-> 200, status |-> renders[render_id].status,
                                    image_path |-> renders[render_id].image_path,
                                    thumb_path |-> renders[render_id].thumb_path,
                                    metadata |-> renders[render_id].render_metadata]
                              ELSE [code |-> 404]]
    /\ UNCHANGED <<svars, adapters, renders, queue, workers, files, submits, escaped, mcalls>>

\* ModelRegistry.get_adapter called on its own
GetAdapter ==
    /\ main.pc = "idle"
    /\ \E model_key \in LookupKeys :
          main' = [pc |-> "returned", op |-> "get_adapter", model_key |-> model_key,
                   result |-> IF get_adapter_ok(adapters, model_key)
                              THEN "adapter" ELSE "ValueError"]
    /\ UNCHANGED <<svars, adapters, renders, queue, workers, files, submits, escaped, mcalls>>

\* GET /images/{year}/{month}/{filename} for a recorded image_path or thumb_path: the
\* route converts year and month to int and formats them back into the file path
ServeImage ==
    /\ main.pc = "idle"
    /\ \E id \in DOMAIN renders :
       \E path \in {renders[id].image_path, renders[id].thumb_path} \ {EmptyPath} :
          LET year == ParseInt(Digits(path[2]))
              month == ParseInt(path[3])
              filename == <<path[4], path[5]>>
              file_path == serve_image(year, month, filename) IN
          main' = [pc |-> "returned", op |-> "serve_image", id |-> id, path |-> path,
                   file_path |-> file_path,
                   code |-> IF file_path \in files THEN 200 ELSE 404]
    /\ UNCHANGED <<svars, adapters, renders, queue, workers, files, submits, escaped, mcalls>>

\* GET /styles
GetStyles ==
    /\ main.pc = "idle"
    /\ main' = [pc |-> "returned", op |-> "styles", styles |-> Styles(renders)]
    /\ UNCHANGED <<svars, adapters, renders, queue, workers, files, submits, escaped, mcalls>>

\* GET /default
GetDefault ==
    /\ main.pc = "idle"
    /\ \E limit \in SearchLimits, order \in DefaultOrders :
          main' = [pc |-> "returned", op |-> "default", limit |-> limit, order |-> order,
                   results |-> DefaultRows(renders, limit, order)]
    /\ UNCHANGED <<svars, adapters, renders, queue, workers, files, submits, escaped, mcalls>>

\* save_image_files, lines 153-156, on an image of the given size
Thumbnail ==
    /\ main.pc = "idle"
    /\ \E width \in Dimensions, height \in Dimensions :
          main' = [pc |-> "returned", op |-> "thumbnail", width |-> width,
                   height |-> height, result |-> thumbnail(THUMB_SIZE, width, height)]
    /\ UNCHANGED <<svars, adapters, renders, queue, workers, files, submits, escaped, mcalls>>

\* ModelRegistry.build_prompt called on its own
BuildPrompt ==
    /\ main.pc = "idle"
    /\ \E base_prompt \in PromptStrings, style_phrase \in PromptStrings :
          main' = [pc |-> "returned", op |-> "build_prompt",
                   base_prompt |-> base_prompt, style_phrase |-> style_phrase,
                   result |-> build_prompt(base_prompt, style_phrase)]
    /\ UNCHANGED <<svars, adapters, renders, queue, workers, files, submits, escaped, mcalls>>

\* the caller takes the response; the event loop serves the next call
Return ==
    /\ main.pc = "returned"
    /\ main' = MainIdle
    /\ UNCHANGED <<svars, adapters, renders, queue, workers, files, submits, escaped, mcalls>>

Next ==
    \/ CreateRender(Requests, MaxJobs)
    \/ CreateRenderEnqueue
    \/ EnqueueRender(MaxEnqueues)
    \/ GetRenderStatus
    \/ Return
    \/ \E w \in Workers : Start(w)
    \/ \E w \in Workers : AdapterReturn(w)
    \/ \E w \in Workers : DownloadReturn(w)
    \/ \E w \in Workers : Except(w)

Spec == Init /\ [][Next]_vars

\* the worker pool under load: more jobs than workers, no caller but create_render
NextPool ==
    \/ CreateRender(PoolRequests, MaxPoolJobs)
    \/ CreateRenderEnqueue
    \/ Return
    \/ \E w \in Workers : Start(w)
    \/ \E w \in Workers : AdapterReturn(w)
    \/ \E w \in Workers : DownloadReturn(w)
    \/ \E w \in Workers : Except(w)

SpecPool == Init /\ [][NextPool]_vars

\* the service as its callers see it: submissions and status reads beside the workers
NextApi ==
    \/ NextPool
    \/ GetRenderStatus

SpecApi == Init /\ [][NextApi]_vars

\* one job dispatched again and again: enqueue_render called for an id already submitted
NextRetry ==
    \/ CreateRender(PoolRequests, MaxRetryJobs)
    \/ CreateRenderEnqueue
    \/ EnqueueRender(MaxRetryEnqueues)
    \/ Return
    \/ \E w \in Workers : Start(w)
    \/ \E w \in Workers : AdapterReturn(w)
    \/ \E w \in Workers : DownloadReturn(w)
    \/ \E w \in Workers : Except(w)

SpecRetry == Init /\ [][NextRetry]_vars

\* after a restart: a job of the previous run is dispatched under the present registry
NextRestart ==
    \/ EnqueueRender(MaxRestartEnqueues)
    \/ Return
    \/ \E w \in Workers : Start(w)
    \/ \E w \in Workers : AdapterReturn(w)
    \/ \E w \in Workers : DownloadReturn(w)
    \/ \E w \in Workers : Except(w)

SpecRestart == InitRestart /\ [][NextRestart]_vars

\* create_matrix_renders with the workers running beside it
NextMatrix ==
    \/ MatrixCall
    \/ MatrixStep
    \/ MatrixEnqueue
    \/ Return
    \/ \E w \in Workers : Start(w)
    \/ \E w \in Workers : AdapterReturn(w)
    \/ \E w \in Workers : DownloadReturn(w)
    \/ \E w \in Workers : Except(w)

SpecMatrix == Init /\ [][NextMatrix]_vars

\* the gallery: jobs are created and run while the query surface is read
NextGallery ==
    \/ CreateRender(GalleryRequests, MaxGalleryJobs)
    \/ CreateRenderEnqueue
    \/ SearchFirst
    \/ SearchSecond
    \/ GetStyles
    \/ GetDefault
    \/ GetRender
    \/ GetRenderStatus
    \/ Return
    \/ \E w \in Workers : Start(w)
    \/ \E w \in Workers : AdapterReturn(w)
    \/ \E w \in Workers : DownloadReturn(w)
    \/ \E w \in Workers : Except(w)

SpecGallery == Init /\ [][NextGallery]_vars

\* the registry in use: lookups beside job creation and the workers
NextRegistry ==
    \/ GetAdapter
    \/ CreateRender(PoolRequests, MaxRegistryJobs)
    \/ CreateRenderEnqueue
    \/ Return
    \/ \E w \in Workers : Start(w)
    \/ \E w \in Workers : AdapterReturn(w)
    \/ \E w \in Workers : DownloadReturn(w)
    \/ \E w \in Workers : Except(w)

SpecRegistry == InitRegistry /\ [][NextRegistry]_vars

\* the image route beside job creation and the workers
NextServe ==
    \/ ServeImage
    \/ CreateRender(PoolRequests, MaxServeJobs)
    \/ CreateRenderEnqueue
    \/ Return
    \/ \E w \in Workers : Start(w)
    \/ \E w \in Workers : AdapterReturn(w)
    \/ \E w \in Workers : DownloadReturn(w)
    \/ \E w \in Workers : Except(w)

SpecServe == Init /\ [][NextServe]_vars

\* the prompt composition alone, over PromptStrings
NextPrompt ==
    \/ BuildPrompt
    \/ Return

SpecPrompt == Init /\ [][NextPrompt]_vars
\* the thumbnail size alone, over Dimensions
NextThumb ==
    \/ Thumbnail
    \/ Return

SpecThumb == Init /\ [][NextThumb]_vars

(* ---------------------------- StripeService --------------------------- *)
\* the credit calls of two server processes on one customer, nothing else running
InitCredits ==
    /\ adapters = RegistryInit(TRUE, TRUE)
    /\ renders = <<>>
    /\ queue = <<>>
    /\ workers = [w \in Workers |-> Idle]
    /\ files = {}
    /\ submits = [i \in Ids |-> 0]
    /\ escaped = FALSE
    /\ mcalls = 0
    /\ main = MainIdle
    /\ \E balance \in InitialCredits : StripeServiceInit(balance)

\* a call returns to its caller
Returned(p, n, op, user_id, amount, result, source) ==
    calls' = [calls EXCEPT ![p] = [pc |-> "returned", n |-> n, op |-> op,
                                   user_id |-> user_id, amount |-> amount,
                                   result |-> result, source |-> source]]

\* get_user_credits: the cached value while the entry has not expired; otherwise 0 for
\* a user without customer, else the balance retrieved from Stripe, which is cached,
\* or 0 when the request raises
GetUserCredits(p) ==
    /\ calls[p].pc # "modify"
    /\ ledger.calls < MaxCreditCalls
    /\ ledger' = [ledger EXCEPT !.calls = @ + 1]
    /\ \E user_id \in UserIds :
          LET n == ledger.calls + 1 IN
          IF CacheHit(credit_cache[p], user_id, clock)
          THEN /\ Returned(p, n, "get_user_credits", user_id, 0,
                           credit_cache[p][user_id][1], "cache")
               /\ UNCHANGED credit_cache
          ELSE IF user_id \notin Customers
          THEN /\ Returned(p, n, "get_user_credits", user_id, 0, 0, "no customer")
               /\ UNCHANGED credit_cache
          ELSE \E outcome \in StripeOutcomes :
                  IF outcome = "StripeError"
                  THEN /\ Returned(p, n, "get_user_credits", user_id, 0, 0, "StripeError")
                       /\ UNCHANGED credit_cache
                  ELSE LET credits == ParseInt(stripe) IN
                       /\ Returned(p, n, "get_user_credits", user_id, 0, credits, "stripe")
                       /\ credit_cache' = [credit_cache EXCEPT ![p] =
                              CachePut(@, user_id, credits, clock)]
    /\ UNCHANGED <<rvars, stripe, clock>>

\* deduct_credits and add_credits up to stripe.Customer.retrieve: False for a user
\* without customer, when the request raises and, in deduct_credits, when the balance
\* read is less than the amount; otherwise the call goes on to stripe.Customer.modify
Retrieve(p, op) ==
    /\ calls[p].pc # "modify"
    /\ ledger.calls < MaxCreditCalls
    /\ ledger' = [ledger EXCEPT !.calls = @ + 1]
    /\ \E user_id \in UserIds, amount \in Amounts :
          LET n == ledger.calls + 1 IN
          IF user_id \notin Customers
          THEN Returned(p, n, op, user_id, amount, FALSE, "no customer")
          ELSE \E outcome \in StripeOutcomes :
                  IF outcome = "StripeError"
                  THEN Returned(p, n, op, user_id, amount, FALSE, "StripeError")
                  ELSE LET current_credits == ParseInt(stripe) IN
                       IF op = "deduct_credits" /\ current_credits < amount
                       THEN Returned(p, n, op, user_id, amount, FALSE, "insufficient")
                       ELSE calls' = [calls EXCEPT ![p] =
                               [pc |-> "modify", n |-> n, op |-> op, user_id |-> user_id,
                                amount |-> amount, current_credits |-> current_credits]]
    /\ UNCHANGED <<rvars, stripe, credit_cache, clock>>

DeductCredits(p) == Retrieve(p, "deduct_credits")

AddCredits(p) == Retrieve(p, "add_credits")

\* deduct_credits and add_credits from stripe.Customer.modify on: the new balance is
\* written as str(new_credits), the user's cache entry of this process is deleted and
\* the call returns True; when the request raises, nothing is written and it returns False
ModifyCustomer(p) ==
    /\ calls[p].pc = "modify"
    /\ LET c == calls[p]
           new_credits == IF c.op = "deduct_credits"
                          THEN c.current_credits - c.amount
                          ELSE c.current_credits + c.amount IN
       \E outcome \in StripeOutcomes :
          IF outcome = "StripeError"
          THEN /\ Returned(p, c.n, c.op, c.user_id, c.amount, FALSE, "StripeError")
               /\ UNCHANGED <<stripe, credit_cache, ledger>>
          ELSE /\ stripe' = Digits(new_credits)
               /\ credit_cache' = [credit_cache EXCEPT ![p] = Invalidate(@, c.user_id)]
               /\ Returned(p, c.n, c.op, c.user_id, c.amount, TRUE, "stripe")
               /\ ledger' = IF c.op = "deduct_credits"
                            THEN [ledger EXCEPT !.deducted = @ + c.amount]
                            ELSE [ledger EXCEPT !.added = @ + c.amount]
    /\ UNCHANGED <<rvars, clock>>

\* time passes
Tick ==
    /\ clock < MaxTicks * TickSeconds
    /\ clock' = clock + TickSeconds
    /\ UNCHANGED <<rvars, stripe, credit_cache, calls, ledger>>

NextCredits ==
    \/ \E p \in Procs : GetUserCredits(p)
    \/ \E p \in Procs : DeductCredits(p)
    \/ \E p \in Procs : AddCredits(p)
    \/ \E p \in Procs : ModifyCustomer(p)
    \/ Tick

SpecCredits == InitCredits /\ [][NextCredits]_vars

(* ------------------------------ fairness ------------------------------ *)
\* the executor's threads run whenever work is queued, provider calls and the
\* download (timeout=30) return or raise, and a create_render call runs to its end
FairSpecPool ==
    /\ SpecPool
    /\ WF_vars(CreateRenderEnqueue)
    /\ \A w \in Workers :
          /\ WF_vars(Start(w))
          /\ WF_vars(AdapterReturn(w))
          /\ WF_vars(DownloadReturn(w))
          /\ WF_vars(Except(w))

(* ------------------------------- claims ------------------------------- *)
Terminal == {"done", "failed"}
Busy(w) == workers[w].pc # "idle"

\* C1: a job's committed status only ever changes pending -> done or pending -> failed;
\* no step changes a status that is done or failed, a further enqueue_render and
\* process_render of the same id included.
C1_StatusOnlyLeavesPending ==
    [][\A id \in DOMAIN renders :
          renders'[id].status # renders[id].status
              => renders[id].status = "pending" /\ renders'[id].status \in Terminal]_vars

\* C2: in every committed state a job with status done has a non-empty image_path
\* and a non-empty thumb_path.
C2_DoneHasBothPaths ==
    \A id \in DOMAIN renders :
        renders[id].status = "done"
            => renders[id].image_path # EmptyPath /\ renders[id].thumb_path # EmptyPath

C2_Witness == \E id \in DOMAIN renders : renders[id].status = "done"

\* C3: in every committed state a job whose image_path or thumb_path is non-empty has
\* status done: no pending or failed job has a path set.
C3_PathsOnlyOnDone ==
    \A id \in DOMAIN renders :
        (renders[id].image_path # EmptyPath \/ renders[id].thumb_path # EmptyPath)
            => renders[id].status = "done"

\* C4: every error raised in process_render after the job was loaded is caught: no
\* exception leaves process_render, and the except block leaves the job committed
\* failed with the error string and a failure timestamp in its metadata.
C4_ErrorsEndFailed ==
    [][/\ ~escaped'
       /\ \A w \in Workers :
             (workers[w].pc = "except" /\ workers'[w].pc # "except")
                 => LET id == workers[w].id IN
                    /\ renders'[id].status = "failed"
                    /\ "error" \in DOMAIN renders'[id].render_metadata
                    /\ renders'[id].render_metadata.error = workers[w].error
                    /\ "failed_at" \in DOMAIN renders'[id].render_metadata]_vars

\* C5: create_render with a model key that is not registered raises to the caller and
\* changes nothing: no row is inserted and nothing is submitted to the executor.
C5_UnknownModelRejected ==
    [][(/\ main.pc = "idle"
        /\ main'.pc # "idle"
        /\ main'.op = "create_render"
        /\ main'.model_key \notin list_models(adapters))
          => /\ main'.pc = "returned"
             /\ main'.result = "ValueError"
             /\ renders' = renders
             /\ queue' = queue
             /\ submits' = submits]_vars

C5_Witness ==
    /\ main.pc = "returned"
    /\ main.op = "create_render"
    /\ main.result = "ValueError"
    /\ main.model_key \notin list_models(adapters)
    /\ adapters # {}

\* C6: create_render with a registered key inserts the row with status pending, and
\* from its return on get_render_status of the returned id never answers None.
C6_CreatedPendingAndRetrievable ==
    [][/\ \A id \in DOMAIN renders' \ DOMAIN renders : renders'[id].status = "pending"
       /\ (main.pc = "enqueue" /\ main.op = "create_render" /\ main'.pc = "returned")
             => get_render_status(renders', main'.id) # NotFound
       /\ \A id \in Ids :
             get_render_status(renders, id) # NotFound
                 => get_render_status(renders', id) # NotFound]_vars

C6_Witness ==
    /\ main.pc = "returned"
    /\ main.op = "create_render"
    /\ main.result = "ok"
    /\ get_render_status(renders, main.id).found
    /\ get_render_status(renders, main.id).status = "pending"

\* C7: at every instant at most 2 process_render executions are inside an adapter
\* text2img / img2img call, however many jobs were submitted.
C7_AtMostTwoInAdapter ==
    Cardinality({w \in DOMAIN workers : workers[w].pc = "adapter"}) <= 2

C7_Witness ==
    /\ Cardinality({w \in DOMAIN workers : workers[w].pc = "adapter"}) = 2
    /\ queue # <<>>
    /\ Cardinality(DOMAIN renders) > 2

C9_NoTwoWorkersOnOneJob ==
    \A w1 \in Workers, w2 \in Workers :
        (w1 # w2 /\ Busy(w1) /\ Busy(w2)) => workers[w1].id # workers[w2].id

\* C10: create_matrix_renders with S style phrases and M model keys returns S*M jobs,
\* one per (style phrase, model key) combination, each with its own id and each
\* submitted to the executor once.
C10_MatrixOnePerCombination ==
    (main.pc = "returned" /\ main.op = "create_matrix_renders" /\ main.result = "ok")
        => LET S == Len(main.style_phrases)
               M == Len(main.model_keys)
               out == main.out IN
           /\ Len(out) = S * M
           /\ \A a \in 1..Len(out), b \in 1..Len(out) : a # b => out[a] # out[b]
           /\ \A i \in 1..S, j \in 1..M :
                 LET id == out[(i - 1) * M + j] IN
                 /\ id \in DOMAIN renders
                 /\ renders[id].style_phrase = main.style_phrases[i]
                 /\ renders[id].model_key = main.model_keys[j]
                 /\ submits[id] = 1
           /\ mcalls = 1 => DOMAIN renders = {out[k] : k \in 1..Len(out)}

C10_Witness ==
    /\ main.pc = "returned"
    /\ main.op = "create_matrix_renders"
    /\ main.result = "ok"
    /\ Len(main.style_phrases) = 2
    /\ Len(main.model_keys) = 2
    /\ main.model_keys[1] # main.model_keys[2]
    /\ Len(main.out) = 4

\* C11: among the jobs of one create_matrix_renders call, a job ending failed changes
\* no other job's record and no other run: the except block writes its own row only,
\* and every run whose adapter call returned a result and whose download returned an
\* image commits its job done.
OwnFailures ==
    {"timeout", "No images generated", "Failed to download generated image",
     "cannot identify image file"}

C11_MatrixJobsIndependent ==
    [][\A w \in Workers :
          /\ (workers[w].pc = "except" /\ workers'[w].pc = "idle")
                => /\ \A id \in DOMAIN renders \ {workers[w].id} : renders'[id] = renders[id]
                   /\ \A v \in Workers \ {w} : workers'[v] = workers[v]
                   /\ queue' = queue
          /\ (workers[w].pc = "download" /\ workers'[w].pc = "except")
                => workers'[w].error \in OwnFailures
          /\ (workers[w].pc = "download" /\ workers'[w].pc = "idle")
                => renders'[workers[w].id].status = "done"]_vars

C11_Witness ==
    /\ mcalls = 1
    /\ \E a \in DOMAIN renders, b \in DOMAIN renders :
          /\ a < b
          /\ renders[a].status = "failed"
          /\ renders[a].render_metadata.error = "timeout"
          /\ renders[b].status = "done"
          /\ renders[b].image_path # EmptyPath

\* C12: every job created by create_matrix_renders is anonymous and zero-cost: its
\* user_id is None and its cost_credits is 0, whatever arguments the call was given.
C12_MatrixJobsAnonymousZeroCost ==
    \A id \in DOMAIN renders :
        renders[id].user_id = None /\ renders[id].cost_credits = 0

\* C13: build_prompt(base, style) is base, then exactly one space, then style, with
\* nothing cut off and nothing escaped: the output is as long as both inputs plus one,
\* starts with base, ends with style, has a single space between them, and computing
\* it again from the same inputs gives the same string.
C13_BuildPromptConcatenates ==
    (main.pc = "returned" /\ main.op = "build_prompt")
        => LET b == main.base_prompt
               s == main.style_phrase
               r == main.result IN
           /\ Len(r) = Len(b) + 1 + Len(s)
           /\ SubSeq(r, 1, Len(b)) = b
           /\ SubSeq(r, Len(b) + 1, Len(b) + 1) = " "
           /\ SubSeq(r, Len(b) + 2, Len(r)) = s
           /\ build_prompt(b, s) = r

C13_Witness ==
    /\ main.pc = "returned"
    /\ main.op = "build_prompt"
    /\ main.base_prompt = "a cat"
    /\ main.style_phrase = "oil painting"
    /\ main.result = "a cat oil painting"

\* C14: a process_render run enters an adapter generation call at most once, at its
\* start; the call is text2img when the job's input_image_path is None and img2img
\* when it names an image, and its prompt is base_prompt, a space, style_phrase: for
\* base 'a cat', style 'oil painting' and no input image it is text2img with
\* 'a cat oil painting'.
C14_OneAdapterCallByInputImage ==
    [][\A w \in Workers :
          /\ (workers'[w].pc = "adapter" /\ workers'[w] # workers[w])
                => workers[w].pc = "idle"
          /\ workers'[w].pc = "adapter"
                => LET r == renders[workers'[w].id]
                       call == workers'[w] IN
                   /\ r.input_image_path = None => call.kind = "text2img"
                   /\ r.input_image_path \notin {None, ""} => call.kind = "img2img"
                   /\ call.kind \in {"text2img", "img2img"}
                   /\ call.prompt = r.base_prompt \o " " \o r.style_phrase
                   /\ (/\ r.base_prompt = "a cat"
                       /\ r.style_phrase = "oil painting"
                       /\ r.input_image_path = None)
                         => call.kind = "text2img" /\ call.prompt = "a cat oil painting"]_vars

\* the example job has run to done with both paths, and an img2img call is under way
C14_Witness ==
    /\ \E id \in DOMAIN renders :
          /\ renders[id].base_prompt = "a cat"
          /\ renders[id].style_phrase = "oil painting"
          /\ renders[id].input_image_path = None
          /\ renders[id].status = "done"
          /\ renders[id].image_path # EmptyPath
          /\ renders[id].thumb_path # EmptyPath
          /\ "effective_prompt" \in DOMAIN renders[id].render_metadata
          /\ renders[id].render_metadata.effective_prompt = "a cat oil painting"
    /\ \E w \in Workers :
          /\ workers[w].pc = "adapter"
          /\ workers[w].kind = "img2img"
          /\ workers[w].prompt = "a dog watercolor"

\* C15: search, styles and the default listing only return jobs whose status was done
\* when the query read them, for every q, offset and limit, and the total reported by
\* search counts done jobs only.
DoneNow == {id \in DOMAIN renders : renders[id].status = "done"}

C15_GalleryReadsOnlyDone ==
    [][(main' # main /\ main'.pc # "idle")
          => /\ main'.op \in {"search", "default"}
                   => \A k \in DOMAIN main'.results : main'.results[k].status = "done"
             /\ (main'.op = "search" /\ (main.pc = "idle" <=> main'.variant = "rows first"))
                   => \A k \in DOMAIN main'.results : main'.results[k].id \in DoneNow
             /\ (main'.op = "search" /\ (main.pc = "idle" <=> main'.variant = "count first"))
                   => /\ main'.total <= Cardinality(DoneNow)
                      /\ main'.q = None => main'.total = Cardinality(DoneNow)
             /\ main'.op = "default"
                   => \A k \in DOMAIN main'.results : main'.results[k].id \in DoneNow
             /\ main'.op = "styles"
                   => \A st \in main'.styles :
                         \E id \in DoneNow : renders[id].style_phrase = st]_vars

\* a search has answered with a done job while another job is pending or failed
C15_Witness ==
    /\ main.pc = "returned"
    /\ main.op = "search"
    /\ Len(main.results) = 1
    /\ main.total = 1
    /\ \E id \in DOMAIN renders : renders[id].status = "failed"
    /\ \E id \in DOMAIN renders : renders[id].status = "done"

\* C16: for every source width and height the thumbnail fits in 200 x 200, has its
\* longest edge at exactly 200 when the source was larger than the box, and keeps the
\* source's aspect ratio to within one pixel on the shorter edge (sizes are whole
\* pixels); 4000x2000 gives 200x100 and 500x500 gives 200x200.
C16_ThumbnailKeepsAspect ==
    (main.pc = "returned" /\ main.op = "thumbnail")
        => LET w == main.width
               h == main.height
               tw == main.result[1]
               th == main.result[2] IN
           /\ tw \in 1..200
           /\ th \in 1..200
           /\ (w > 200 \/ h > 200) => (tw = 200 \/ th = 200)
           /\ w >= h => (tw >= th /\ Abs(th * w - tw * h) < w)
           /\ h >= w => (th >= tw /\ Abs(tw * h - th * w) < h)
           /\ (w = 4000 /\ h = 2000) => main.result = <<200, 100>>
           /\ (w = 500 /\ h = 500) => main.result = <<200, 200>>

C16_Witness ==
    /\ main.pc = "returned"
    /\ main.op = "thumbnail"
    /\ main.width = 4000
    /\ main.height = 2000
    /\ main.result = <<200, 100>>

\* C17: every adapter generation call returns at least one ImageResult or raises to
\* its caller; it never returns an empty list. (process_render raises "No images
\* generated" itself, and only when the call has returned an empty list.)
C17_AdapterReturnsResultOrRaises ==
    [][\A w \in Workers :
          (workers[w].pc = "adapter" /\ workers'[w].pc = "except")
              => workers'[w].error # "No images generated"]_vars

\* C18: every write of render_metadata by process_render keeps each key the committed
\* metadata had before the write, with the same value.
C18_MetadataWritesMerge ==
    [][\A id \in DOMAIN renders :
          \A k \in DOMAIN renders[id].render_metadata :
              /\ k \in DOMAIN renders'[id].render_metadata
              /\ renders'[id].render_metadata[k] = renders[id].render_metadata[k]]_vars

\* C19: image_path and thumb_path become non-empty only in the commit that takes the
\* job's status to done, and once non-empty they never change.
C19_PathsSetOnceWithDone ==
    [][\A id \in DOMAIN renders :
          /\ renders[id].image_path # EmptyPath
                => renders'[id].image_path = renders[id].image_path
          /\ renders[id].thumb_path # EmptyPath
                => renders'[id].thumb_path = renders[id].thumb_path
          /\ (/\ renders[id].image_path = EmptyPath \/ renders[id].thumb_path = EmptyPath
              /\ renders'[id].image_path # EmptyPath \/ renders'[id].thumb_path # EmptyPath)
                => /\ renders[id].status # "done"
                   /\ renders'[id].status = "done"
                   /\ renders'[id].image_path # EmptyPath
                   /\ renders'[id].thumb_path # EmptyPath]_vars

\* C20: no step of process_render changes a job's id, user_id, style_phrase,
\* base_prompt, model_key, input_image_path or cost_credits: a row keeps its id and
\* these columns as create_render inserted them, through runs that end done and runs
\* that end failed.
FixedColumns ==
    {"user_id", "style_phrase", "base_prompt", "model_key", "input_image_path",
     "cost_credits"}

C20_ProcessRenderKeepsColumns ==
    [][/\ \A id \in DOMAIN renders :
             /\ id \in DOMAIN renders'
             /\ \A f \in FixedColumns : renders'[id][f] = renders[id][f]
       /\ \A id \in DOMAIN renders' \ DOMAIN renders :
             LET r == renders'[id] IN
             Request(r.user_id, r.style_phrase, r.model_key, r.base_prompt,
                     r.input_image_path, r.cost_credits) \in PoolRequests \cup Requests]_vars

\* the job has been run to done and run again to failed
C20_Witness ==
    \E id \in DOMAIN renders :
        /\ renders[id].status = "failed"
        /\ renders[id].image_path # EmptyPath
        /\ "error" \in DOMAIN renders[id].render_metadata
        /\ "generation" \in DOMAIN renders[id].render_metadata
        /\ Request(renders[id].user_id, renders[id].style_phrase, renders[id].model_key,
                   renders[id].base_prompt, renders[id].input_image_path,
                   renders[id].cost_credits) \in PoolRequests

\* C21: status, image_path and thumb_path of an existing job change only in a step of
\* a process_render run of that job: create_render, get_render_status and the
\* search, styles, default and get_render handlers leave them unchanged for every
\* job that exists.
C21_OnlyProcessRenderWrites ==
    [][\A id \in DOMAIN renders :
          LET kept == /\ renders'[id].status = renders[id].status
                      /\ renders'[id].image_path = renders[id].image_path
                      /\ renders'[id].thumb_path = renders[id].thumb_path IN
          /\ main' # main => kept
          /\ ~kept => \E w \in Workers :
                          /\ workers[w].pc \in {"download", "except"}
                          /\ workers[w].id = id
                          /\ workers'[w].pc = "idle"]_vars

\* create_render has returned a second job while the first one is done
C21_Witness ==
    /\ main.pc = "returned"
    /\ main.op = "create_render"
    /\ main.result = "ok"
    /\ \E id \in DOMAIN renders :
          /\ id # main.id
          /\ renders[id].status = "done"
          /\ renders[id].image_path # EmptyPath

\* C22: a process_render run for an id that has no row does nothing: it takes the id
\* from the executor's queue and ends; no row is created or changed, no worker enters
\* an adapter call, a download or the except block, no file is written and no error
\* leaves process_render.
C22_UnknownIdIsNoOp ==
    [][(queue # <<>> /\ queue' = Tail(queue) /\ Head(queue) \notin DOMAIN renders)
          => /\ renders' = renders
             /\ workers' = workers
             /\ files' = files
             /\ escaped' = escaped]_vars

\* the run for the unknown id is over: it was submitted, the queue is empty again,
\* the workers are idle and there is still no row
C22_Witness ==
    /\ submits[UnknownId] = 1
    /\ queue = <<>>
    /\ \A w \in Workers : workers[w].pc = "idle"
    /\ renders = <<>>
    /\ files = {}
    /\ ~escaped

\* C23: a process_render run for an existing job whose model_key is not registered
\* goes from loading the row straight to the except block, which leaves the job
\* failed with the error in its metadata; no adapter call, no download and no file or
\* path write happens for it.
Unregistered(id) == renders[id].model_key \notin list_models(adapters)

C23_UnknownKeyEndsFailed ==
    [][\A w \in Workers :
          /\ workers'[w].pc \in {"adapter", "download"} => ~Unregistered(workers'[w].id)
          /\ (workers[w].pc = "idle" /\ workers'[w].pc # "idle"
                  /\ Unregistered(workers'[w].id))
                => workers'[w].pc = "except" /\ files' = files /\ renders' = renders
          /\ (workers[w].pc = "except" /\ workers'[w].pc = "idle"
                  /\ Unregistered(workers[w].id))
                => LET id == workers[w].id IN
                   /\ renders'[id].status = "failed"
                   /\ "error" \in DOMAIN renders'[id].render_metadata
                   /\ renders'[id].render_metadata.error = "Model not available"
                   /\ renders'[id].image_path = EmptyPath
                   /\ renders'[id].thumb_path = EmptyPath
                   /\ files' = files]_vars

C23_Witness ==
    \E id \in DOMAIN renders :
        /\ Unregistered(id)
        /\ adapters # {}
        /\ renders[id].status = "failed"
        /\ renders[id].render_metadata.error = "Model not available"
        /\ files = {}
        /\ \A w \in Workers : workers[w].pc = "idle"

\* C24: in a process_render run the download starts only after the adapter call
\* returned a non-empty list, with its first element; files are written only by a
\* run whose download returned bytes; and when the list is empty or the download
\* fails or returns no bytes, the run writes no file and the job ends failed.
StageFailures == {"No images generated", "Failed to download generated image"}

C24_StagesOrdered ==
    [][/\ files' # files
             => \E w \in Workers : workers[w].pc = "download" /\ workers'[w].pc # "download"
       /\ \A w \in Workers :
             /\ (workers'[w].pc = "download" /\ workers[w].pc # "download")
                   => /\ workers[w].pc = "adapter"
                      /\ workers'[w].result.image_url = "url1"
             /\ (workers'[w].pc = "except" /\ workers[w].pc # "except"
                     /\ workers'[w].error \in StageFailures)
                   => files' = files
             /\ (workers[w].pc = "except" /\ workers'[w].pc = "idle"
                     /\ workers[w].error \in StageFailures)
                   => /\ files' = files
                      /\ renders'[workers[w].id].status = "failed"]_vars

\* C25: the registry built from the settings holds replicate:sdxl exactly when the
\* Replicate token is set and openai:dalle3, openai:dalle2 exactly when the OpenAI key
\* is set, and nothing else; no operation changes it afterwards; and get_adapter(k)
\* returns an adapter if and only if k is in list_models(), raising otherwise.
C25_RegistryState ==
    /\ (main.pc = "returned" /\ main.op = "ModelRegistry")
          => /\ "replicate:sdxl" \in adapters <=> main.replicate_api_token # ""
             /\ "openai:dalle3" \in adapters <=> main.openai_api_key # ""
             /\ "openai:dalle2" \in adapters <=> main.openai_api_key # ""
             /\ adapters \subseteq {"replicate:sdxl", "openai:dalle3", "openai:dalle2"}
    /\ (main.pc = "returned" /\ main.op = "get_adapter")
          => /\ main.result \in {"adapter", "ValueError"}
             /\ main.result = "adapter" <=> main.model_key \in list_models(adapters)

C25_RegistryFollowsCredentials ==
    []C25_RegistryState /\ [][adapters' = adapters]_vars

C25_Witness ==
    /\ main.pc = "returned"
    /\ main.op = "get_adapter"
    /\ main.model_key = "openai:dalle2"
    /\ main.result = "ValueError"
    /\ adapters = {"replicate:sdxl"}
    /\ \E id \in DOMAIN renders : renders[id].status = "done"

\* C26: create_render commits the new job record before it calls enqueue_render, so
\* every process_render run that create_render triggered finds its record: the id it
\* enqueues and every queued id has a record, and each run taken from the queue loads
\* the record and goes on with it (the "not found" return is never taken).
C26_CreatedJobIsFound ==
    [][/\ (main'.pc = "enqueue" /\ main.pc # "enqueue") => main'.id \in DOMAIN renders'
       /\ \A i \in 1..Len(queue') : queue'[i] \in DOMAIN renders'
       /\ Len(queue') < Len(queue)
             => /\ query_first(renders, Head(queue)) # NoRow
                /\ \E w \in Workers : /\ workers[w].pc = "idle"
                                       /\ workers'[w].pc # "idle"
                                       /\ workers'[w].id = Head(queue)
                                       /\ workers'[w].orig = renders[Head(queue)]]_vars

C26_Witness ==
    /\ main.pc = "enqueue"
    /\ queue # <<>>
    /\ \E w \in Workers : workers[w].pc = "download" /\ submits[workers[w].id] = 1

\* C27: create_matrix_renders raises at the first (style phrase, model key)
\* combination, in style-major order, whose model key is not in list_models(): the jobs
\* of all earlier combinations are persisted and enqueued once, the raising step
\* creates and enqueues nothing, no job exists after the last one listed, and the call
\* returns normally only when it met no such key, with one job per combination.
C27_Returned ==
    (main.pc = "returned" /\ main.op = "create_matrix_renders")
        => LET S == Len(main.style_phrases)
               M == Len(main.model_keys)
               n == Len(main.out)
               style(i) == main.style_phrases[((i - 1) \div M) + 1]
               key(i) == main.model_keys[((i - 1) % M) + 1] IN
           /\ main.result \in {"ok", "ValueError"}
           /\ \A i \in 1..n :
                 /\ key(i) \in list_models(adapters)
                 /\ main.out[i] \in DOMAIN renders
                 /\ renders[main.out[i]].style_phrase = style(i)
                 /\ renders[main.out[i]].model_key = key(i)
                 /\ submits[main.out[i]] = 1
                 /\ i < n => main.out[i + 1] = main.out[i] + 1
           /\ n > 0 => \A id \in DOMAIN renders : id <= main.out[n]
           /\ main.result = "ValueError"
                 => n < S * M /\ key(n + 1) \notin list_models(adapters)
           /\ main.result = "ok" => n = S * M

C27_MatrixStopsAtUnknownKey ==
    /\ []C27_Returned
    /\ [][(main.pc = "matrix" /\ main'.pc = "returned")
             => /\ renders' = renders
                /\ queue' = queue
                /\ submits' = submits
                /\ main'.out = main.out]_vars

C27_Witness ==
    /\ main.pc = "returned"
    /\ main.op = "create_matrix_renders"
    /\ main.result = "ValueError"
    /\ Len(main.style_phrases) = 2
    /\ main.model_keys = <<"replicate:sdxl", "acme:v1">>
    /\ Len(main.out) = 1
    /\ renders[main.out[1]].status = "done"

\* C28: requesting the recorded image_path or thumb_path of a job through the
\* serve_image route resolves to the file that save_image_files wrote for it, data/
\* followed by the recorded path, and that file is served.
C28_ServedPathIsSavedPath ==
    (main.pc = "returned" /\ main.op = "serve_image")
        => /\ main.file_path = <<"data">> \o main.path
           /\ main.file_path \in files
           /\ main.code = 200

\* C29: in each process, when a deduct_credits or add_credits call for a user
\* returns True the process's credit_cache holds no entry for that user, and the next
\* get_user_credits of that process for that user does not answer from the cache: it
\* returns the balance stored in Stripe at that moment, or 0 when the Stripe request
\* raises. A get_user_credits that meets an unexpired entry returns the cached value
\* without a Stripe request.
Mutated(c, user_id) ==
    /\ c.pc = "returned"
    /\ c.op \in {"deduct_credits", "add_credits"}
    /\ c.user_id = user_id
    /\ c.result = TRUE

GetStep(p) ==
    /\ ledger'.calls = ledger.calls + 1
    /\ calls'[p].n = ledger'.calls
    /\ calls'[p].op = "get_user_credits"

C29_CacheInvalidatedOnWrite ==
    [][\A p \in Procs :
          /\ (calls[p].pc = "modify" /\ Mutated(calls'[p], calls[p].user_id))
                => calls[p].user_id \notin DOMAIN credit_cache'[p]
          /\ (GetStep(p) /\ Mutated(calls[p], calls'[p].user_id))
                => /\ calls'[p].source \in {"stripe", "StripeError"}
                   /\ calls'[p].source = "stripe" => calls'[p].result = ParseInt(stripe)
                   /\ calls'[p].source = "StripeError" => calls'[p].result = 0
          /\ (GetStep(p) /\ CacheHit(credit_cache[p], calls'[p].user_id, clock))
                => /\ calls'[p].source = "cache"
                   /\ calls'[p].result = credit_cache[p][calls'[p].user_id][1]
                   /\ credit_cache' = credit_cache]_vars

\* C29 as first stated: the next get_user_credits after a call that returned True
\* always returns the balance stored in Stripe.
C29_NextGetReturnsStripeBalance ==
    [][\A p \in Procs :
          (GetStep(p) /\ Mutated(calls[p], calls'[p].user_id))
              => calls'[p].result = ParseInt(stripe)]_vars

C29_Witness ==
    \E p \in Procs :
        /\ calls[p].pc = "returned"
        /\ calls[p].op = "get_user_credits"
        /\ calls[p].source = "stripe"
        /\ calls[p].n = 3
        /\ \A q \in Procs \ {p} : calls[q].pc = "idle"
        /\ clock = 0
        /\ ledger.added + ledger.deducted \in Amounts
        /\ calls[p].result = ParseInt(stripe)
        /\ calls[p].result # ledger.initial

\* C30: whenever no deduct_credits or add_credits call is between its read and its
\* write, the Stripe balance is the initial balance plus the amounts of the
\* add_credits calls that returned True minus the amounts of the deduct_credits calls
\* that returned True; and a deduct_credits whose amount exceeds the balance it read
\* returns False and writes nothing.
C30_Balance ==
    (\A p \in Procs : calls[p].pc # "modify")
        => ParseInt(stripe) = ledger.initial + ledger.added - ledger.deducted

C30_BalanceIsSumOfReturnedCalls ==
    /\ []C30_Balance
    /\ [][\A p \in Procs :
             (calls'[p] # calls[p] /\ calls'[p].pc = "returned"
                  /\ calls'[p].source = "insufficient")
                => /\ calls'[p].op = "deduct_credits"
                   /\ calls'[p].amount > ParseInt(stripe)
                   /\ calls'[p].result = FALSE
                   /\ stripe' = stripe]_vars

=============================================================================
